---- MODULE Spec2Model ----
(***************************************************************************)
(* ChatAzureFoundry (browser_use/llm/azure_foundry/chat.py): construction  *)
(* with environment fallback, the lazily created and memoized transport    *)
(* client, and ainvoke: message translation, the transport call and the    *)
(* extraction of the result.  Callers are threads; every statement of      *)
(* get_client that reads or writes self._client is a step of its own.      *)
(***************************************************************************)
EXTENDS Integers, Sequences, FiniteSets, TLC

\* ------------------------------------------------------------------ bounds
MaxLen == 3        \* longest message list of the sequential inputs
NThreads == 2      \* caller threads of the concurrent specification

\* --------------------------------------------------------------- constants
None == "<None>"                 \* Python's None where a str is optional
NoClient == 0                    \* _client: field(default=None)
DefaultTemperature == 0          \* temperature: float = 0.0
DefaultMaxTokens == 1000         \* max_tokens: int = 1000
Threads == 1..NThreads
SeqThreads == {1}
PairThreads == {1, 2}

\* Python truthiness of an Optional[str]: None and "" are falsy.
Truthy(v) == v # None /\ v # ""

\* Or with its operands swapped: the environment is asked first.
OrEnvironmentFirst(a, b) == IF Truthy(b) THEN b ELSE a

\* Python's `a or b`: a when a is truthy, otherwise b (whatever b is).
Or(a, b) == IF Truthy(a) THEN a ELSE b

\* os.getenv(name): the variable's value, None when it is unset.
getenv(env, name) == env[name]

\* ------------------------------------------------------------ input values
ArgVals == {None, "", "a"}       \* an explicit endpoint / api_key argument
EnvVals == {None, "", "b"}       \* a value of the process environment

Environs(vals) ==
    [AZURE_INFERENCE_ENDPOINT : vals, AZURE_INFERENCE_CREDENTIAL : vals]

CtorArgs(vals) ==
    [model : {"gpt"}, endpoint : vals, api_key : vals,
     temperature : {DefaultTemperature}, max_tokens : {DefaultMaxTokens}]

DefaultArgs ==
    [model |-> "gpt", endpoint |-> "a", api_key |-> None,
     temperature |-> DefaultTemperature, max_tokens |-> DefaultMaxTokens]

TunedArgs ==
    [model |-> "phi", endpoint |-> "a", api_key |-> "a",
     temperature |-> 1, max_tokens |-> 64]

Roles == {"system", "user", "assistant", "tool"}
Contents == {"x", "y"}
Message == [role : Roles, content : Contents]
MessageLists(n) == UNION {[1..k -> Message] : k \in 0..n}

EmptyKwargs == [k \in {} |-> 0]
OutputFormats == {None, "Schema"}

Choice(c) == [message |-> [content |-> c]]
Usage(p, c, t) == [prompt_tokens |-> p, completion_tokens |-> c, total_tokens |-> t]
NoUsage == Usage(0, 0, 0)

\* What the transport does with a call: it raises exc, or returns an object
\* that may lack the choices or usage attribute.
Raises(e) ==
    [exc |-> e, has_choices |-> FALSE, choices |-> <<>>,
     has_usage |-> FALSE, usage |-> NoUsage]
Returns(hc, ch, hu, us) ==
    [exc |-> "", has_choices |-> hc, choices |-> ch, has_usage |-> hu, usage |-> us]

TransportErrors == {"HttpResponseError", "ServiceRequestError"}

AllResponses ==
    {Raises(e) : e \in TransportErrors}
    \cup {Returns(TRUE, ch, TRUE, us) :
            ch \in {<<Choice("hello")>>, <<Choice("hi"), Choice("hello")>>, <<>>},
            us \in {Usage(3, 2, 5), Usage(1, 4, 6)}}
    \cup {Returns(FALSE, <<>>, TRUE, Usage(3, 2, 5)),
          Returns(TRUE, <<Choice("hello")>>, FALSE, NoUsage),
          Returns(TRUE, <<>>, FALSE, NoUsage)}

\* The inputs of a specification: the values its callers and its transport
\* draw from.
SeqInputs ==
    [environ |-> {[AZURE_INFERENCE_ENDPOINT |-> None, AZURE_INFERENCE_CREDENTIAL |-> "b"]},
     ctor |-> CtorArgs({None}) \cup {DefaultArgs, TunedArgs},
     messages |-> MessageLists(MaxLen),
     output_formats |-> OutputFormats,
     kwargs |-> {EmptyKwargs, "top_p" :> 1, "temperature" :> 1, "model" :> "other",
                 ("top_p" :> 1) @@ ("max_tokens" :> 5), "messages" :> <<>>},
     responses |-> AllResponses]

CtorInputs ==
    [environ |-> Environs(EnvVals),
     ctor |-> CtorArgs(ArgVals) \cup {TunedArgs},
     messages |-> {<<[role |-> "user", content |-> "x"]>>},
     output_formats |-> {None},
     kwargs |-> {EmptyKwargs},
     responses |-> {Raises("HttpResponseError"),
                    Returns(TRUE, <<Choice("hello")>>, TRUE, Usage(3, 2, 5))}]

RaceInputs ==
    [environ |-> {[AZURE_INFERENCE_ENDPOINT |-> None, AZURE_INFERENCE_CREDENTIAL |-> "b"]},
     ctor |-> CtorArgs({None, "a"}),
     messages |-> {<<[role |-> "user", content |-> "x"]>>},
     output_formats |-> {None},
     kwargs |-> {EmptyKwargs},
     responses |-> {Returns(TRUE, <<Choice("hello")>>, TRUE, Usage(3, 2, 5))}]

PairInputs ==
    [environ |-> Environs({"b"}),
     ctor |-> {TunedArgs},
     messages |-> {<<>>, <<[role |-> "user", content |-> "x"],
                          [role |-> "tool", content |-> "y"]>>},
     output_formats |-> OutputFormats,
     kwargs |-> {EmptyKwargs, "top_p" :> 1, "model" :> "other"},
     responses |-> {Raises("HttpResponseError"),
                    Returns(TRUE, <<Choice("hello")>>, TRUE, Usage(3, 2, 5)),
                    Returns(TRUE, <<Choice("hi")>>, TRUE, Usage(1, 4, 6)),
                    Returns(TRUE, <<>>, TRUE, Usage(3, 2, 5))}]

\* ------------------------------------------------------------------- state
VARIABLES
    environ,             \* os.environ
    built,               \* "unbuilt", "ok", or "failed" (__post_init__ raised)
    ctor,                \* the arguments the constructor was called with
    self,                \* the adapter's fields
    clients,             \* every ChatCompletionsClient constructed, in order
    assigned,            \* the handles stored into self._client, in order
    pc,                  \* each thread's position
    op,                  \* the method the thread called
    messages, output_format, kwargs,     \* ainvoke's parameters
    fresh,               \* the client just constructed, not yet stored
    client,              \* ainvoke's local `client` / get_client's result
    formatted_messages,  \* ainvoke's local list
    calls,               \* the transport invocations of the thread's call
    response,            \* what the transport answered, <<>> before
    ret                  \* how the call ended, <<>> while it runs

shared == <<environ, built, ctor, self, clients, assigned>>
params == <<op, messages, output_format, kwargs>>
locals == <<fresh, client, formatted_messages, calls, response, ret>>
vars == <<shared, pc, params, locals>>

Return(v) == [kind |-> "return", value |-> v]
Raise(e) == [kind |-> "raise", exc |-> e]

Unbuilt ==
    [model |-> "", endpoint |-> None, api_key |-> None,
     temperature |-> DefaultTemperature, max_tokens |-> DefaultMaxTokens,
     _client |-> NoClient]

InitWith(I) ==
    /\ environ \in I.environ
    /\ built = "unbuilt"
    /\ ctor = <<>>
    /\ self = Unbuilt
    /\ clients = <<>>
    /\ assigned = <<>>
    /\ pc = [t \in Threads |-> "idle"]
    /\ op = [t \in Threads |-> "none"]
    /\ messages = [t \in Threads |-> <<>>]
    /\ output_format = [t \in Threads |-> None]
    /\ kwargs = [t \in Threads |-> EmptyKwargs]
    /\ fresh = [t \in Threads |-> NoClient]
    /\ client = [t \in Threads |-> NoClient]
    /\ formatted_messages = [t \in Threads |-> <<>>]
    /\ calls = [t \in Threads |-> <<>>]
    /\ response = [t \in Threads |-> <<>>]
    /\ ret = [t \in Threads |-> <<>>]

\* ------------------------------------------------------------ construction
\* Lines 27-28: each field keeps a truthy argument, else takes the
\* environment's value.
ResolveEndpoint(a, env) == Or(a.endpoint, getenv(env, "AZURE_INFERENCE_ENDPOINT"))
ResolveApiKey(a, env) == Or(a.api_key, getenv(env, "AZURE_INFERENCE_CREDENTIAL"))

\* Line 30 with `and` for `or`: one resolved value is enough.
ConfigMissingBoth(endpoint, api_key) == ~Truthy(endpoint) /\ ~Truthy(api_key)

\* Line 30: `not self.endpoint or not self.api_key`.
ConfigMissing(endpoint, api_key) == ~Truthy(endpoint) \/ ~Truthy(api_key)

\* ChatAzureFoundry(...): the dataclass __init__ followed by __post_init__.
post_init(I) ==
    /\ built = "unbuilt"
    /\ \E a \in I.ctor :
         LET endpoint == ResolveEndpoint(a, environ)
             api_key == ResolveApiKey(a, environ)
         IN /\ ctor' = <<a>>
            /\ self' = [model |-> a.model, endpoint |-> endpoint, api_key |-> api_key,
                        temperature |-> a.temperature, max_tokens |-> a.max_tokens,
                        _client |-> NoClient]
            /\ built' = IF ConfigMissing(endpoint, api_key) THEN "failed" ELSE "ok"
    /\ UNCHANGED <<environ, clients, assigned, pc, params, locals>>

\* -------------------------------------------------------------- get_client
\* get_client without the memo: every call builds a client.
ClientAlwaysMissing(s) == TRUE

\* Line 38: `not self._client`.
ClientMissing(s) == s._client = NoClient

\* Lines 39-42, right-hand side: a client built from the adapter's endpoint
\* and AzureKeyCredential(api_key).
NewClient(s) == [endpoint |-> s.endpoint, credential |-> s.api_key]

\* A store that keeps the client already there: the first assignment wins.
StoreClientIfAbsent(old, new) == IF old = NoClient THEN new ELSE old

\* Line 39, the assignment: self._client becomes the client just built.
StoreClient(old, new) == new

\* get_client(): the call and the test of line 38.
call_get_client(t) ==
    /\ built = "ok"
    /\ pc[t] = "idle"
    /\ op' = [op EXCEPT ![t] = "get_client"]
    /\ pc' = [pc EXCEPT ![t] = IF ClientMissing(self) THEN "construct" ELSE "return_client"]
    /\ UNCHANGED <<shared, messages, output_format, kwargs, locals>>

\* Lines 39-42: the constructor call, before its value is stored.
construct_client(t) ==
    /\ pc[t] = "construct"
    /\ clients' = Append(clients, NewClient(self))
    /\ fresh' = [fresh EXCEPT ![t] = Len(clients) + 1]
    /\ pc' = [pc EXCEPT ![t] = "store"]
    /\ UNCHANGED <<environ, built, ctor, self, assigned, params,
                   client, formatted_messages, calls, response, ret>>

\* Line 39: the store into self._client.
store_client(t) ==
    /\ pc[t] = "store"
    /\ self' = [self EXCEPT !._client = StoreClient(self._client, fresh[t])]
    /\ assigned' = Append(assigned, fresh[t])
    /\ pc' = [pc EXCEPT ![t] = "return_client"]
    /\ UNCHANGED <<environ, built, ctor, clients, params, locals>>

\* Line 43: `return self._client`, to get_client's caller or to line 51.
return_client(t) ==
    /\ pc[t] = "return_client"
    /\ client' = [client EXCEPT ![t] = self._client]
    /\ IF op[t] = "get_client"
       THEN /\ ret' = [ret EXCEPT ![t] = <<Return(self._client)>>]
            /\ pc' = [pc EXCEPT ![t] = "done"]
       ELSE /\ ret' = ret
            /\ pc' = [pc EXCEPT ![t] = "format"]
    /\ UNCHANGED <<shared, params, fresh, formatted_messages, calls, response>>

\* ----------------------------------------------------------------- ainvoke
\* The parameters ainvoke names itself: a keyword of one of these names is
\* bound to the parameter and never lands in **kwargs.
OwnParameters == {"messages"}

\* The loop body with a catch-all branch: an unknown role goes out as a
\* user message.
AppendFormattedCoerce(acc, msg) ==
    IF msg.role = "system"
    THEN Append(acc, [type |-> "SystemMessage", content |-> msg.content])
    ELSE IF msg.role = "assistant"
    THEN Append(acc, [type |-> "AssistantMessage", content |-> msg.content])
    ELSE Append(acc, [type |-> "UserMessage", content |-> msg.content])

\* Lines 56-61: one iteration of the loop over messages.
AppendFormatted(acc, msg) ==
    IF msg.role = "system"
    THEN Append(acc, [type |-> "SystemMessage", content |-> msg.content])
    ELSE IF msg.role = "user"
    THEN Append(acc, [type |-> "UserMessage", content |-> msg.content])
    ELSE IF msg.role = "assistant"
    THEN Append(acc, [type |-> "AssistantMessage", content |-> msg.content])
    ELSE acc

\* Lines 54-61: the loop, from the first message to the last.
RECURSIVE FormatLoop(_, _, _)
FormatLoop(msgs, i, acc) ==
    IF i > Len(msgs) THEN acc
    ELSE FormatLoop(msgs, i + 1, AppendFormatted(acc, msgs[i]))

FormatMessages(msgs) == FormatLoop(msgs, 1, <<>>)

\* Lines 65-68: the keywords the call site names itself.
NamedArguments(fm, s) ==
    ("messages" :> fm) @@ ("model" :> s.model)
    @@ ("temperature" :> s.temperature) @@ ("max_tokens" :> s.max_tokens)

\* A call site where a repeated keyword is no error.
NeverDuplicateKeyword(named, kw) == FALSE

\* Line 69: **kwargs next to named keywords. A name given twice is a
\* TypeError raised by the call itself, before the callee runs.
DuplicateKeyword(named, kw) == DOMAIN named \cap DOMAIN kw # {}

\* The call without its **kwargs.
CompleteArgumentsNamedOnly(named, kw) == named

\* Lines 64-70: the keyword arguments client.complete receives.
CompleteArguments(named, kw) == named @@ kw

\* choices[-1] for choices[0].
LastChoiceContent(r) == r.choices[Len(r.choices)].message.content

\* Line 73: response.choices[0].message.content.
FirstChoiceContent(r) == r.choices[1].message.content

\* Lines 74-78.
ChatInvokeUsage(u) ==
    [prompt_tokens |-> u.prompt_tokens,
     completion_tokens |-> u.completion_tokens,
     total_tokens |-> u.total_tokens]

\* Lines 80-83.
ChatInvokeCompletion(completion, usage) == [completion |-> completion, usage |-> usage]

\* An extraction that guards its reads and returns what it has.
ExtractResultLenient(r) ==
    Return([completion |-> IF r.has_choices /\ r.choices # <<>>
                           THEN r.choices[1].message.content ELSE "",
            usage |-> IF r.has_usage THEN r.usage ELSE NoUsage])

\* Lines 72-83 on a returned response: the attribute reads and the index of
\* lines 73-77 raise where the response lacks what they read.
ExtractResult(r) ==
    IF ~r.has_choices THEN Raise("AttributeError")
    ELSE IF r.choices = <<>> THEN Raise("IndexError")
    ELSE IF ~r.has_usage THEN Raise("AttributeError")
    ELSE Return(ChatInvokeCompletion(FirstChoiceContent(r), ChatInvokeUsage(r.usage)))

\* ainvoke(messages, output_format, **kw): the binding of the parameters
\* (lines 45-50), then line 51 up to the test of line 38.
call_ainvoke(t, I) ==
    /\ built = "ok"
    /\ pc[t] = "idle"
    /\ \E msgs \in I.messages, fmt \in I.output_formats, kw \in I.kwargs :
         /\ op' = [op EXCEPT ![t] = "ainvoke"]
         /\ messages' = [messages EXCEPT ![t] = msgs]
         /\ output_format' = [output_format EXCEPT ![t] = fmt]
         /\ kwargs' = [kwargs EXCEPT ![t] = kw]
         /\ IF DOMAIN kw \cap OwnParameters # {}
            THEN /\ ret' = [ret EXCEPT ![t] = <<Raise("TypeError")>>]
                 /\ pc' = [pc EXCEPT ![t] = "done"]
            ELSE /\ ret' = ret
                 /\ pc' = [pc EXCEPT ![t] =
                             IF ClientMissing(self) THEN "construct" ELSE "return_client"]
    /\ UNCHANGED <<shared, fresh, client, formatted_messages, calls, response>>

\* Lines 54-61.
format_messages(t) ==
    /\ pc[t] = "format"
    /\ formatted_messages' = [formatted_messages EXCEPT ![t] = FormatMessages(messages[t])]
    /\ pc' = [pc EXCEPT ![t] = "complete"]
    /\ UNCHANGED <<shared, params, fresh, client, calls, response, ret>>

\* Lines 64-70 with output_format forwarded as response_format when it is set.
complete_forwarding_format(t) ==
    /\ pc[t] = "complete"
    /\ LET named == ("messages" :> formatted_messages[t]) @@ ("model" :> self.model)
                    @@ ("temperature" :> self.temperature)
                    @@ ("max_tokens" :> self.max_tokens)
           extra == IF output_format[t] = None THEN kwargs[t]
                    ELSE ("response_format" :> output_format[t]) @@ kwargs[t]
       IN IF DOMAIN named \cap DOMAIN extra # {}
          THEN /\ ret' = [ret EXCEPT ![t] = <<Raise("TypeError")>>]
               /\ pc' = [pc EXCEPT ![t] = "done"]
               /\ calls' = calls
          ELSE /\ calls' = [calls EXCEPT ![t] =
                              Append(@, [client |-> client[t], args |-> named @@ extra])]
               /\ pc' = [pc EXCEPT ![t] = "await"]
               /\ ret' = ret
    /\ UNCHANGED <<shared, params, fresh, client, formatted_messages, response>>

\* Lines 64-70: client.complete(...) is called and the coroutine suspends.
complete(t) ==
    /\ pc[t] = "complete"
    /\ LET named == NamedArguments(formatted_messages[t], self)
       IN IF DuplicateKeyword(named, kwargs[t])
          THEN /\ ret' = [ret EXCEPT ![t] = <<Raise("TypeError")>>]
               /\ pc' = [pc EXCEPT ![t] = "done"]
               /\ calls' = calls
          ELSE /\ calls' = [calls EXCEPT ![t] =
                              Append(@, [client |-> client[t],
                                         args |-> CompleteArguments(named, kwargs[t])])]
               /\ pc' = [pc EXCEPT ![t] = "await"]
               /\ ret' = ret
    /\ UNCHANGED <<shared, params, fresh, client, formatted_messages, response>>

\* The transport answers the awaited call: it returns a response, or it
\* raises and nothing between line 64 and the caller catches.
transport_reply(t, I) ==
    /\ pc[t] = "await"
    /\ \E r \in I.responses :
         /\ response' = [response EXCEPT ![t] = <<r>>]
         /\ IF r.exc # ""
            THEN /\ ret' = [ret EXCEPT ![t] = <<Raise(r.exc)>>]
                 /\ pc' = [pc EXCEPT ![t] = "done"]
            ELSE /\ ret' = ret
                 /\ pc' = [pc EXCEPT ![t] = "extract"]
    /\ UNCHANGED <<shared, params, fresh, client, formatted_messages, calls>>

\* Lines 72-83.
extract(t) ==
    /\ pc[t] = "extract"
    /\ ret' = [ret EXCEPT ![t] = <<ExtractResult(response[t][1])>>]
    /\ pc' = [pc EXCEPT ![t] = "done"]
    /\ UNCHANGED <<shared, params, fresh, client, formatted_messages, calls, response>>

\* The call is over: its frame is gone and the thread may call again.
finish(t) ==
    /\ pc[t] = "done"
    /\ pc' = [pc EXCEPT ![t] = "idle"]
    /\ op' = [op EXCEPT ![t] = "none"]
    /\ messages' = [messages EXCEPT ![t] = <<>>]
    /\ output_format' = [output_format EXCEPT ![t] = None]
    /\ kwargs' = [kwargs EXCEPT ![t] = EmptyKwargs]
    /\ fresh' = [fresh EXCEPT ![t] = NoClient]
    /\ client' = [client EXCEPT ![t] = NoClient]
    /\ formatted_messages' = [formatted_messages EXCEPT ![t] = <<>>]
    /\ calls' = [calls EXCEPT ![t] = <<>>]
    /\ response' = [response EXCEPT ![t] = <<>>]
    /\ ret' = [ret EXCEPT ![t] = <<>>]
    /\ UNCHANGED shared

\* ---------------------------------------------------------- specifications
NextWith(I, T) ==
    \/ post_init(I)
    \/ \E t \in T :
         \/ call_get_client(t)
         \/ construct_client(t)
         \/ store_client(t)
         \/ return_client(t)
         \/ call_ainvoke(t, I)
         \/ format_messages(t)
         \/ complete(t)
         \/ transport_reply(t, I)
         \/ extract(t)
         \/ finish(t)

\* Threads call into one adapter concurrently.
Init == InitWith(RaceInputs)
Next == NextWith(RaceInputs, Threads)
Spec == Init /\ [][Next]_vars

\* One thread: the calls follow one another.
SeqInit == InitWith(SeqInputs)
SeqNext == NextWith(SeqInputs, SeqThreads)
SeqSpec == SeqInit /\ [][SeqNext]_vars

\* One thread, every combination of constructor arguments and environment.
CtorInit == InitWith(CtorInputs)
CtorNext == NextWith(CtorInputs, SeqThreads)
CtorSpec == CtorInit /\ [][CtorNext]_vars

\* Two threads with inputs that differ in output_format.
PairInit == InitWith(PairInputs)
PairNext == NextWith(PairInputs, PairThreads)
PairSpec == PairInit /\ [][PairNext]_vars

\* ------------------------------------------------------------ construction
ExplicitOrEnvironment(arg, env) == IF arg # None /\ arg # "" THEN arg ELSE env

NothingStarted ==
    /\ clients = <<>>
    /\ \A t \in Threads : pc[t] = "idle" /\ calls[t] = <<>> /\ ret[t] = <<>>

\* C1 (amended): construction resolves endpoint and credential each to the
\* explicit argument when a non-empty one is given, otherwise to the
\* environment's value; it succeeds exactly when both resolved values are
\* present and non-empty, and otherwise fails, with no usable adapter, no
\* client constructed and no transport call issued.
C1_ResolveNonEmpty ==
    built # "unbuilt" =>
        /\ self.endpoint =
               ExplicitOrEnvironment(ctor[1].endpoint, environ.AZURE_INFERENCE_ENDPOINT)
        /\ self.api_key =
               ExplicitOrEnvironment(ctor[1].api_key, environ.AZURE_INFERENCE_CREDENTIAL)
        /\ built = "ok" <=>
               /\ self.endpoint \notin {None, ""}
               /\ self.api_key \notin {None, ""}
        /\ built = "failed" => NothingStarted

\* C1 witness: an empty endpoint argument fell back to the environment, and
\* construction failed for want of a credential.
C1_Witness ==
    /\ built = "failed"
    /\ ctor[1].endpoint = ""
    /\ self.endpoint = "b"
    /\ self.api_key \in {None, ""}

\* C1 as stated: an argument that is given (not None) is the resolved value,
\* and construction succeeds exactly when both resolved values are present
\* (not None).
C1_AsStated ==
    built # "unbuilt" =>
        /\ self.endpoint =
               IF ctor[1].endpoint # None THEN ctor[1].endpoint
               ELSE environ.AZURE_INFERENCE_ENDPOINT
        /\ self.api_key =
               IF ctor[1].api_key # None THEN ctor[1].api_key
               ELSE environ.AZURE_INFERENCE_CREDENTIAL
        /\ built = "ok" <=> (self.endpoint # None /\ self.api_key # None)
        /\ built = "failed" => NothingStarted

\* ------------------------------------------------------- the memoized client
\* C2: with calls issued one after another, at most one client is ever
\* constructed, a get_client that returns returns the adapter's one handle,
\* and no step takes self._client back to None or replaces it.
C2_OneClient ==
    [][ /\ Len(clients') <= 1
        /\ self._client # NoClient => self'._client = self._client
        /\ \A t \in Threads :
             (pc'[t] = "done" /\ op'[t] = "get_client") =>
                 /\ self'._client = 1
                 /\ ret'[t] = <<Return(1)>>
        /\ \A t \in Threads : calls'[t] # <<>> => calls'[t][1].client = 1 ]_vars

\* C2 witness: a get_client call that built nothing returns the handle an
\* earlier call created.
C2_Witness ==
    \E t \in Threads :
        /\ pc[t] = "done" /\ op[t] = "get_client"
        /\ fresh[t] = NoClient
        /\ ret[t] = <<Return(1)>>
        /\ Len(clients) = 1

\* C3: whatever the interleaving, self._client holds the client of the latest
\* assignment, so an earlier assignment's client is overwritten.
C3_LastAssignmentWins ==
    /\ assigned # <<>> => self._client = assigned[Len(assigned)]
    /\ assigned = <<>> => self._client = NoClient
    /\ Len(assigned) <= Len(clients)

\* C3 witness: two ainvoke calls both found no client, both constructed one,
\* and the second assignment replaced the first: two clients were constructed
\* and the one stored first is no longer the adapter's.
C3_Witness ==
    \E t, u \in Threads :
        /\ t # u
        /\ op[t] = "ainvoke" /\ op[u] = "ainvoke"
        /\ fresh[t] # NoClient /\ fresh[u] # NoClient
        /\ assigned = <<fresh[t], fresh[u]>>
        /\ Len(clients) = 2
        /\ self._client = fresh[u]
        /\ self._client # fresh[t]

\* C7: a transport call has been issued only by an adapter whose construction
\* succeeded, whose endpoint and credential are both present, and on a client
\* that was created from them.
C7_CallOnlyWhenValidated ==
    /\ \A t \in Threads : \A i \in DOMAIN calls[t] :
         /\ built = "ok"
         /\ self.endpoint \notin {None, ""}
         /\ self.api_key \notin {None, ""}
         /\ calls[t][i].client \in 1..Len(clients)
         /\ clients[calls[t][i].client] =
                [endpoint |-> self.endpoint, credential |-> self.api_key]
    /\ built = "failed" => NothingStarted

\* C7 witness: a call is in flight on an adapter whose credential came from
\* the environment.
C7_Witness ==
    \E t \in Threads :
        /\ pc[t] = "await"
        /\ Len(calls[t]) = 1
        /\ ctor[1].api_key = None
        /\ self.api_key = "b"

\* ----------------------------------------------------------------- ainvoke
Recognized(m) == m.role \in {"system", "user", "assistant"}

Representation ==
    ("system" :> "SystemMessage") @@ ("user" :> "UserMessage")
    @@ ("assistant" :> "AssistantMessage")

FixedFields == {"model", "temperature", "max_tokens"}

Malformed(r) == r.exc = "" /\ (~r.has_choices \/ r.choices = <<>> \/ ~r.has_usage)

\* C4: the messages the transport receives are the input messages of role
\* system, user or assistant, in their order, each as the representation of
\* its role with its content; every other message is left out.
C4_TranslatedSubsequence ==
    \A t \in Threads : \A i \in DOMAIN calls[t] :
        LET sent == calls[t][i].args["messages"]
            kept == SelectSeq(messages[t], Recognized)
        IN /\ Len(sent) = Cardinality({j \in DOMAIN messages[t] : Recognized(messages[t][j])})
           /\ Len(sent) = Len(kept)
           /\ \A j \in DOMAIN sent :
                /\ sent[j].type = Representation[kept[j].role]
                /\ sent[j].content = kept[j].content

\* C4 witness: of <<user, tool, assistant>> the transport received the user
\* and the assistant message, in that order, with their own contents.
C4_Witness ==
    \E t \in Threads :
        /\ Len(calls[t]) = 1
        /\ Len(messages[t]) = 3
        /\ messages[t][1] = [role |-> "user", content |-> "x"]
        /\ messages[t][2].role = "tool"
        /\ messages[t][3] = [role |-> "assistant", content |-> "y"]
        /\ calls[t][1].args["messages"] =
               <<[type |-> "UserMessage", content |-> "x"],
                 [type |-> "AssistantMessage", content |-> "y"]>>

\* C5 (amended): every extra option reaches the transport call together with
\* the configured model, temperature and max_tokens when none of them is
\* named model, temperature, max_tokens or messages; when one is, the call
\* ends in a TypeError and the transport is not invoked.
C5_ExtrasOrTypeError ==
    \A t \in Threads :
        /\ \A i \in DOMAIN calls[t] :
             LET args == calls[t][i].args
             IN /\ DOMAIN args = {"messages"} \cup FixedFields \cup DOMAIN kwargs[t]
                /\ \A k \in DOMAIN kwargs[t] : args[k] = kwargs[t][k]
                /\ args["model"] = self.model
                /\ args["temperature"] = self.temperature
                /\ args["max_tokens"] = self.max_tokens
        /\ (op[t] = "ainvoke" /\ DOMAIN kwargs[t] \cap (FixedFields \cup {"messages"}) # {}) =>
             /\ calls[t] = <<>>
             /\ pc[t] = "done" => ret[t] = <<Raise("TypeError")>>
        /\ (pc[t] \in {"await", "extract"}) => Len(calls[t]) = 1

\* C5 witness: a call with the extra options top_p and max_tokens ended in a
\* TypeError without the transport being invoked, on an adapter configured
\* with max_tokens = 64.
C5_Witness ==
    \E t \in Threads :
        /\ pc[t] = "done"
        /\ kwargs[t] = ("top_p" :> 1) @@ ("max_tokens" :> 5)
        /\ self.max_tokens = 64
        /\ calls[t] = <<>>
        /\ ret[t] = <<Raise("TypeError")>>

\* C5 as stated: every finished call invoked the transport, which received
\* each extra option's value, also under the name of a fixed field.
C5_AsStated ==
    \A t \in Threads :
        (pc[t] = "done" /\ op[t] = "ainvoke") =>
            /\ Len(calls[t]) = 1
            /\ \A k \in DOMAIN kwargs[t] :
                 /\ k \in DOMAIN calls[t][1].args
                 /\ calls[t][1].args[k] = kwargs[t][k]

\* C6: when the transport raises, or returns a response with no choices or
\* without its choices or usage field, the call ends in a failure (the
\* transport's own when it raised), never in a result, and the transport was
\* invoked once.
C6_FailurePropagates ==
    \A t \in Threads :
        (pc[t] = "done" /\ response[t] # <<>>) =>
            LET r == response[t][1]
            IN /\ r.exc # "" => ret[t] = <<Raise(r.exc)>>
               /\ Malformed(r) =>
                    /\ ret[t][1].kind = "raise"
                    /\ ret[t][1].exc \in {"AttributeError", "IndexError"}
               /\ (r.exc # "" \/ Malformed(r)) => Len(calls[t]) = 1

\* C6 witness: the transport returned an empty choices list and the call
\* ended in the IndexError of line 73.
C6_Witness ==
    \E t \in Threads :
        /\ pc[t] = "done"
        /\ response[t] # <<>>
        /\ response[t][1].exc = ""
        /\ response[t][1].has_choices /\ response[t][1].choices = <<>>
        /\ response[t][1].has_usage
        /\ ret[t] = <<Raise("IndexError")>>

\* C8: when the transport returns a response with choices and usage, the call
\* returns the first choice's message content and the response's three usage
\* counters, field by field.
C8_ResultFromResponse ==
    \A t \in Threads :
        (pc[t] = "done" /\ response[t] # <<>>) =>
            LET r == response[t][1]
            IN (r.exc = "" /\ ~Malformed(r)) =>
                 /\ ret[t][1].kind = "return"
                 /\ ret[t][1].value.completion = r.choices[1].message.content
                 /\ ret[t][1].value.usage.prompt_tokens = r.usage.prompt_tokens
                 /\ ret[t][1].value.usage.completion_tokens = r.usage.completion_tokens
                 /\ ret[t][1].value.usage.total_tokens = r.usage.total_tokens
                 /\ DOMAIN ret[t][1].value = {"completion", "usage"}

\* C8 witness: of two choices the first one's content was returned, with the
\* counters 1, 4 and 6 of the response.
C8_Witness ==
    \E t \in Threads :
        /\ pc[t] = "done"
        /\ response[t] # <<>>
        /\ Len(response[t][1].choices) = 2
        /\ ret[t] = <<Return([completion |-> "hi", usage |-> Usage(1, 4, 6)])>>

\* C9: two ainvoke calls on the adapter with the same messages and extra
\* options issue the same transport call whatever their output_format, which
\* is not among the forwarded arguments, and on the same transport response
\* end the same way.
C9_OutputFormatIgnored ==
    \A t, u \in Threads :
        (op[t] = "ainvoke" /\ op[u] = "ainvoke"
         /\ messages[t] = messages[u] /\ kwargs[t] = kwargs[u]) =>
            /\ (pc[t] \in {"await", "extract", "done"} /\ pc[u] \in {"await", "extract", "done"}) =>
                 /\ Len(calls[t]) = Len(calls[u])
                 /\ \A i \in DOMAIN calls[t] :
                      /\ calls[t][i].args = calls[u][i].args
                      /\ \A k \in DOMAIN calls[t][i].args :
                           k \in {"messages"} \cup FixedFields \cup DOMAIN kwargs[t]
            /\ (pc[t] = "done" /\ pc[u] = "done" /\ response[t] = response[u]) =>
                 ret[t] = ret[u]

\* C9 witness: two calls that differ in output_format alone have ended with
\* the same result of the same response.
C9_Witness ==
    \E t, u \in Threads :
        /\ op[t] = "ainvoke" /\ op[u] = "ainvoke"
        /\ output_format[t] = None /\ output_format[u] = "Schema"
        /\ messages[t] = messages[u] /\ Len(messages[t]) = 2
        /\ kwargs[t] = kwargs[u]
        /\ pc[t] = "done" /\ pc[u] = "done"
        /\ response[t] = response[u]
        /\ ret[t] = ret[u]
        /\ ret[t][1].kind = "return"
        /\ calls[t][1].args = calls[u][1].args

\* C10 (amended): an ainvoke call whose extra options repeat none of the
\* names messages, model, temperature and max_tokens invokes the transport
\* exactly once, on the client it obtained and with the messages it
\* translated, and stays suspended until that invocation returns or fails,
\* also when the translated list is empty; a call whose extra options repeat
\* one of those names ends without invoking the transport.
C10_OneInvocation ==
    \A t \in Threads :
        op[t] = "ainvoke" =>
            LET repeats == DOMAIN kwargs[t] \cap (FixedFields \cup {"messages"}) # {}
            IN /\ Len(calls[t]) <= 1
               /\ pc[t] \in {"await", "extract"} => Len(calls[t]) = 1
               /\ pc[t] = "done" => Len(calls[t]) = IF repeats THEN 0 ELSE 1
               /\ \A i \in DOMAIN calls[t] :
                    /\ calls[t][i].client # NoClient
                    /\ calls[t][i].client = client[t]
                    /\ calls[t][i].args["messages"] = formatted_messages[t]
               /\ pc[t] = "await" => (response[t] = <<>> /\ ret[t] = <<>>)
               /\ (pc[t] \in {"extract", "done"} /\ ~repeats) => response[t] # <<>>

\* C10 witness: a call whose messages are all of an unrecognized role has
\* ended after one invocation with an empty translated list.
C10_Witness ==
    \E t \in Threads :
        /\ pc[t] = "done"
        /\ Len(messages[t]) = 2
        /\ \A j \in DOMAIN messages[t] : messages[t][j].role = "tool"
        /\ Len(calls[t]) = 1
        /\ calls[t][1].args["messages"] = <<>>
        /\ ret[t][1].kind = "return"

\* C10 as stated: every ainvoke call that has ended invoked the transport
\* exactly once.
C10_AsStated ==
    \A t \in Threads :
        (pc[t] = "done" /\ op[t] = "ainvoke") => Len(calls[t]) = 1

====
